---- MODULE Spec2Model ----
(***************************************************************************)
(* Model of secrets_template.h: ten namespace-scope objects with static    *)
(* storage duration, each initialised from a constant expression.          *)
(*                                                                         *)
(* A C string is a TLA+ string.  A `const char*` value is a sequence of    *)
(* length 0 (the null pointer) or 1 (a pointer to that string literal), so *)
(* that rebinding a pointer and dereferencing it are different things.     *)
(***************************************************************************)
EXTENDS Integers, Sequences, FiniteSets, TLC

\* ------------------------------------------------------------- bounds
\* Number of independent readers (translation units / tasks that use the header).
NumReaders == 2
\* Number of reads recorded in one run.
MaxReads == 3
\* Number of assignments the consuming code performs in one run.
MaxRebinds == 1

Readers == 1..NumReaders

\* ------------------------------------------------- the ten initialisers
\* secrets_template.h:3-12, the right-hand side of each definition.
hostname == "espSolarChargerOTA"
mqtt_user == "mqtt_user"
mqtt_pass == "mqtt_password"

\* Mutant: the broker given by name instead of by address.
mqtt_server_by_name == "broker.local"

mqtt_server == "192.168.1.15"

\* Mutant: two digits too many in the port literal.
mqtt_port_two_more_digits == 1883 * 100

\* Mutant: the TLS port instead of the plain one.
mqtt_port_tls == 1883 + 7000

mqtt_port == 1883
wifi_ssid == "wifi_network"

\* Mutant: the literal's spelling "corrected" during an edit.
wifi_pass_respelled == "wifi_password"

wifi_pass == "wifi_passsword"
mqtt_topic == "epever/state"

\* Mutant: the literal left blank.
ota_pass_blank == ""

ota_pass == "guessme"

\* Mutant: the deep-sleep topic placed below the state topic.
mqtt_deepsleep_below_state == "epever/state/deepsleep"

mqtt_deepsleep == "epever/deepsleep"

\* ------------------------------------------------------ pointer values
NullPtr == << >>
Ptr(s) == << s >>
Deref(p) == p[1]

\* The declared type of each name, as written left of the name.
DeclType ==
  [ hostname       |-> "const char*",
    mqtt_user      |-> "const char*",
    mqtt_pass      |-> "const char*",
    mqtt_server    |-> "const char*",
    mqtt_port      |-> "const int",
    wifi_ssid      |-> "const char*",
    wifi_pass      |-> "const char*",
    mqtt_topic     |-> "const char*",
    ota_pass       |-> "const char*",
    mqtt_deepsleep |-> "const char*" ]

\* The names the header declares.
Names == DOMAIN DeclType

\* In `const char* p` the const qualifies the pointed-to char, not p: p is a
\* modifiable lvalue.  In `const int x` the object x itself is const.
IsConstObject(n) == DeclType[n] = "const int"

IsPointer(n) == DeclType[n] = "const char*"

\* Mutant: ota_pass declared without an initialiser (`const char* ota_pass;`),
\* which leaves it zero-initialised.
StaticImageOtaPassUninitialised ==
  [ hostname       |-> Ptr(hostname),
    mqtt_user      |-> Ptr(mqtt_user),
    mqtt_pass      |-> Ptr(mqtt_pass),
    mqtt_server    |-> Ptr(mqtt_server),
    mqtt_port      |-> mqtt_port,
    wifi_ssid      |-> Ptr(wifi_ssid),
    wifi_pass      |-> Ptr(wifi_pass),
    mqtt_topic     |-> Ptr(mqtt_topic),
    ota_pass       |-> NullPtr,
    mqtt_deepsleep |-> Ptr(mqtt_deepsleep) ]

\* The values the static initialisers give the ten objects.
StaticImage ==
  [ hostname       |-> Ptr(hostname),
    mqtt_user      |-> Ptr(mqtt_user),
    mqtt_pass      |-> Ptr(mqtt_pass),
    mqtt_server    |-> Ptr(mqtt_server),
    mqtt_port      |-> mqtt_port,
    wifi_ssid      |-> Ptr(wifi_ssid),
    wifi_pass      |-> Ptr(wifi_pass),
    mqtt_topic     |-> Ptr(mqtt_topic),
    ota_pass       |-> Ptr(ota_pass),
    mqtt_deepsleep |-> Ptr(mqtt_deepsleep) ]

\* Storage of static duration before its initialiser has been applied:
\* zero-initialised (null pointers, integer 0).
ZeroImage == [ n \in Names |-> IF IsPointer(n) THEN NullPtr ELSE 0 ]

\* ---------------------------------------------------------------- state
VARIABLES
  pc,        \* "load": image not yet initialised; "run": initialisation done
  binding,   \* name -> current value of the object
  log,       \* the reads made so far: <<reader, name, value>>
  rebinds    \* assignments made so far by consuming code

vars == << pc, binding, log, rebinds >>

Init ==
  /\ pc = "load"
  /\ binding = ZeroImage
  /\ log = << >>
  /\ rebinds = 0

\* Mutant: an initialiser that can fail, leaving the image unusable.
StaticInitMayFail ==
  /\ pc = "load"
  /\ \/ binding' = StaticImage /\ pc' = "run"
     \/ binding' = binding /\ pc' = "failed"
  /\ UNCHANGED << log, rebinds >>

\* Static initialisation: every initialiser is a constant expression (a string
\* literal or an integer literal), so all ten are applied in one step, with no
\* condition and no failure outcome.
StaticInit ==
  /\ pc = "load"
  /\ binding' = StaticImage
  /\ pc' = "run"
  /\ UNCHANGED << log, rebinds >>

\* Mutant: initialisers applied at run time, so code can run before them.
ReadableBeforeInit == TRUE

\* Constant initialisation is complete before any code of the program runs:
\* no read can see an object before its initialiser has been applied.
Readable == pc = "run"

\* An lvalue-to-rvalue use of name n by reader r.
Read(r, n) ==
  /\ Readable
  /\ Len(log) < MaxReads
  /\ log' = Append(log, [reader |-> r, name |-> n, value |-> binding[n]])
  /\ UNCHANGED << pc, binding, rebinds >>

\* Values consuming code can assign to a `const char*` object: null, a literal
\* of its own (here the empty one), or the value of another of the header's
\* pointers (here mqtt_topic).
PointerValues == {NullPtr, Ptr(""), StaticImage.mqtt_topic}

\* An assignment `n = v;` in code that includes the header.  It compiles exactly
\* when n is not a const object.
Rebind(n, v) ==
  /\ pc = "run"
  /\ ~IsConstObject(n)
  /\ rebinds < MaxRebinds
  /\ binding' = [binding EXCEPT ![n] = v]
  /\ rebinds' = rebinds + 1
  /\ UNCHANGED << pc, log >>

\* The header as supplied: initialisation and reads, no assignment anywhere.
Next ==
  \/ StaticInit
  \/ \E r \in Readers, n \in Names : Read(r, n)

Spec == Init /\ [][Next]_vars

\* Start-up code always runs the initialisation of the image.
FairSpec == Spec /\ WF_vars(StaticInit)

\* The header together with arbitrary consuming code that the declarations
\* allow to compile.
NextConsumer ==
  \/ StaticInit
  \/ \E r \in Readers, n \in Names : Read(r, n)
  \/ \E n \in Names, v \in PointerValues : Rebind(n, v)

SpecConsumer == Init /\ [][NextConsumer]_vars

\* ------------------------------------------------------- string helpers
StringNames ==
  {"hostname", "mqtt_user", "mqtt_pass", "mqtt_server", "wifi_ssid",
   "wifi_pass", "mqtt_topic", "ota_pass", "mqtt_deepsleep"}

TenNames == StringNames \cup {"mqtt_port"}

CharAt(s, i) == SubSeq(s, i, i)

IsDigit(c) == c \in {"0", "1", "2", "3", "4", "5", "6", "7", "8", "9"}

DigitVal(c) ==
  CASE c = "0" -> 0 [] c = "1" -> 1 [] c = "2" -> 2 [] c = "3" -> 3
    [] c = "4" -> 4 [] c = "5" -> 5 [] c = "6" -> 6 [] c = "7" -> 7
    [] c = "8" -> 8 [] c = "9" -> 9

RECURSIVE SplitDots(_)
\* The fields of s between its dots ("a..b" has an empty middle field).
SplitDots(s) ==
  IF \E i \in 1..Len(s) : CharAt(s, i) = "."
  THEN LET i == CHOOSE k \in 1..Len(s) :
                  /\ CharAt(s, k) = "."
                  /\ \A j \in 1..(k - 1) : CharAt(s, j) # "."
       IN  << SubSeq(s, 1, i - 1) >> \o SplitDots(SubSeq(s, i + 1, Len(s)))
  ELSE << s >>

RECURSIVE DecimalValue(_)
DecimalValue(f) ==
  IF Len(f) = 0 THEN 0
  ELSE DecimalValue(SubSeq(f, 1, Len(f) - 1)) * 10 + DigitVal(CharAt(f, Len(f)))

IsOctetField(f) ==
  /\ Len(f) \in 1..3
  /\ \A i \in 1..Len(f) : IsDigit(CharAt(f, i))
  /\ DecimalValue(f) \in 0..255

IsIPv4Literal(s) ==
  LET fs == SplitDots(s)
  IN  /\ Len(fs) = 4
      /\ \A k \in 1..4 : IsOctetField(fs[k])

IsPrefix(a, b) == Len(a) <= Len(b) /\ SubSeq(b, 1, Len(a)) = a

\* The reads of name n recorded so far.
ReadsOf(n) == {i \in DOMAIN log : log[i].name = n}

\* ---------------------------------------------------------------- claims

\* C1: after static initialisation the configuration exposes exactly the ten
\* names, mqtt_port holds an integer and each of the other nine holds a
\* non-null pointer to a string.
C1_TenNamesTyped ==
  pc = "run" =>
    /\ DOMAIN binding = TenNames
    /\ Cardinality(DOMAIN binding) = 10
    /\ binding.mqtt_port \in Int
    /\ \A n \in StringNames :
         /\ binding[n] # NullPtr
         /\ Len(binding[n]) = 1
         /\ Deref(binding[n]) \in STRING

C1_Witness ==
  /\ pc = "run"
  /\ DOMAIN binding = TenNames
  /\ \A n \in StringNames : binding[n] # NullPtr

\* C2 (as claimed): once initialised, no step rebinds any of the ten names to
\* a different value, whatever the consuming code does.
C2_AllBindingsImmutable == [][pc = "run" => binding' = binding]_vars

\* C3: any two reads of one name within a run return the same value, whoever
\* reads and whatever is read in between.
C3_ReadsAgree ==
  \A i, j \in DOMAIN log :
    log[i].name = log[j].name => log[i].value = log[j].value

C3_Witness ==
  /\ Len(log) = 3
  /\ log[1].name = log[3].name
  /\ log[1].reader # log[3].reader
  /\ log[2].name # log[1].name

\* C4: with the template unmodified every string field equals its template
\* literal, character for character.
C4_TemplateLiterals ==
  pc = "run" =>
    /\ Deref(binding.hostname) = "espSolarChargerOTA"
    /\ Deref(binding.mqtt_user) = "mqtt_user"
    /\ Deref(binding.mqtt_pass) = "mqtt_password"
    /\ Deref(binding.mqtt_server) = "192.168.1.15"
    /\ Deref(binding.wifi_ssid) = "wifi_network"
    /\ Deref(binding.wifi_pass) = "wifi_passsword"
    /\ Deref(binding.mqtt_topic) = "epever/state"
    /\ Deref(binding.ota_pass) = "guessme"
    /\ Deref(binding.mqtt_deepsleep) = "epever/deepsleep"

C4_Witness ==
  /\ pc = "run"
  /\ \E i \in DOMAIN log :
       log[i].name = "wifi_pass" /\ Deref(log[i].value) = "wifi_passsword"

\* C5: mqtt_port is an integer in [0, 65535] in every reachable state, and so
\* is every value read from it.
C5_PortInRange ==
  /\ binding.mqtt_port \in 0..65535
  /\ \A i \in ReadsOf("mqtt_port") : log[i].value \in 0..65535

C5_Witness ==
  /\ pc = "run"
  /\ ReadsOf("mqtt_port") # {}
  /\ binding.mqtt_port \in 0..65535

\* C6: every one of the nine string fields has length at least 1, in every
\* state the program can observe and in every value read.
C6_StringsNonEmpty ==
  /\ pc = "run" =>
       \A n \in StringNames :
         binding[n] # NullPtr /\ Len(Deref(binding[n])) >= 1
  /\ \A i \in DOMAIN log :
       log[i].name \in StringNames =>
         log[i].value # NullPtr /\ Len(Deref(log[i].value)) >= 1

C6_Witness ==
  /\ pc = "run"
  /\ \E i \in DOMAIN log :
       log[i].name = "ota_pass" /\ Len(Deref(log[i].value)) >= 1

\* C7: mqtt_server is a well-formed IPv4 literal: four decimal fields
\* separated by single dots, each in [0, 255], and no other character.
C7_ServerIsIPv4 ==
  /\ pc = "run" => IsIPv4Literal(Deref(binding.mqtt_server))
  /\ \A i \in ReadsOf("mqtt_server") : IsIPv4Literal(Deref(log[i].value))

C7_Witness ==
  /\ pc = "run"
  /\ \E i \in ReadsOf("mqtt_server") :
       SplitDots(Deref(log[i].value)) = << "192", "168", "1", "15" >>

\* The one configuration every run ends in.
FinalConfig ==
  [ hostname       |-> << "espSolarChargerOTA" >>,
    mqtt_user      |-> << "mqtt_user" >>,
    mqtt_pass      |-> << "mqtt_password" >>,
    mqtt_server    |-> << "192.168.1.15" >>,
    mqtt_port      |-> 1883,
    wifi_ssid      |-> << "wifi_network" >>,
    wifi_pass      |-> << "wifi_passsword" >>,
    mqtt_topic     |-> << "epever/state" >>,
    ota_pass       |-> << "guessme" >>,
    mqtt_deepsleep |-> << "epever/deepsleep" >> ]

\* C8: static initialisation always completes; its one step has a single
\* outcome (no error, no branch), the same configuration on every run; and no
\* other step changes the configuration.
C8_InitCompletesOneOutcome ==
  /\ <>(pc = "run")
  /\ [][ /\ pc = "load" => (pc' = "run" /\ binding' = FinalConfig)
         /\ pc = "run" => (pc' = "run" /\ binding' = binding) ]_vars

C8_Witness ==
  /\ pc = "run"
  /\ binding = FinalConfig
  /\ Len(log) = MaxReads

\* C9: the state topic and the deep-sleep topic differ and neither is a prefix
\* of the other.
C9_TopicsDistinct ==
  pc = "run" =>
    LET t == Deref(binding.mqtt_topic)
        d == Deref(binding.mqtt_deepsleep)
    IN  /\ t # d
        /\ ~IsPrefix(t, d)
        /\ ~IsPrefix(d, t)

C9_Witness ==
  /\ pc = "run"
  /\ ReadsOf("mqtt_topic") # {}
  /\ ReadsOf("mqtt_deepsleep") # {}
  /\ IsPrefix("epever/", Deref(binding.mqtt_topic))
  /\ IsPrefix("epever/", Deref(binding.mqtt_deepsleep))

\* C10: mqtt_port equals 1883 in the unmodified template, a non-zero port in
\* [1, 65535].
C10_PortIs1883 ==
  pc = "run" =>
    /\ binding.mqtt_port = 1883
    /\ binding.mqtt_port \in 1..65535

C10_Witness ==
  /\ pc = "run"
  /\ \E i \in ReadsOf("mqtt_port") : log[i].value = 1883

====
